---- MODULE Spec2Model ----
(***************************************************************************)
(* A model of three pieces of the repository:                              *)
(*   - the APM static dashboard catalog (dashboard_catalog.ts),            *)
(*   - the LogRateAnalysisResults React component                          *)
(*     (log_rate_analysis_results.tsx),                                    *)
(*   - the create-rule flyout driven by alert_create_flyout.ts.            *)
(* Each piece has its own specification; the variables of the other        *)
(* pieces stay at their initial values.                                    *)
(***************************************************************************)
EXTENDS Integers, Sequences, FiniteSets, TLC

(***************************************************************************)
(* JavaScript values.  An optional value is the empty tuple (undefined)    *)
(* or a one-element tuple holding the value.                               *)
(***************************************************************************)
Undefined == <<>>
Def(v) == <<v>>
IsDef(o) == o # <<>>
Val(o) == o[1]

(* A function object, e.g. a member inherited from Object.prototype. *)
JsFunction(name) == <<"function", name>>
IsString(o) == Len(o) = 1

(***************************************************************************)
(*                       PART 1: the dashboard catalog                     *)
(***************************************************************************)
VARIABLES
    agentName,      \* the agent name last looked up in the mapping
    filename,       \* the value handed to loadDashboardFile (a JS value)
    dashboard,      \* what the last loadDashboardFile call resolved to
    settled,        \* how the promise of the last call settled
    viaLookup,      \* TRUE when filename is the lookup result of agentName
    imported        \* the JSON files imported so far

catalogVars == <<agentName, filename, dashboard, settled, viaLookup, imported>>

(* A faulty catalog: the elastic Java distribution is filed under the      *)
(* plain Java agent's dashboard.                                           *)
MappingElasticJavaAsJava ==
    ("nodejs" :> "nodejs")
    @@ ("opentelemetry/nodejs" :> "opentelemetry_nodejs")
    @@ ("java" :> "java")
    @@ ("opentelemetry/java" :> "opentelemetry_java")
    @@ ("opentelemetry/java/opentelemetry-java-instrumentation" :> "opentelemetry_java")
    @@ ("opentelemetry/java/elastic" :> "java")
    @@ ("opentelemetry/dotnet" :> "opentelemetry_dotnet")
    @@ ("opentelemetry/dotnet/opentelemetry-dotnet-instrumentation" :> "opentelemetry_dotnet")
    @@ ("opentelemetry/dotnet/elastic" :> "opentelemetry_dotnet")

(* dashboard_catalog.ts, lines 8-18: the object literal. *)
AGENT_NAME_DASHBOARD_FILE_MAPPING ==
    ("nodejs" :> "nodejs")
    @@ ("opentelemetry/nodejs" :> "opentelemetry_nodejs")
    @@ ("java" :> "java")
    @@ ("opentelemetry/java" :> "opentelemetry_java")
    @@ ("opentelemetry/java/opentelemetry-java-instrumentation" :> "opentelemetry_java")
    @@ ("opentelemetry/java/elastic" :> "opentelemetry_java")
    @@ ("opentelemetry/dotnet" :> "opentelemetry_dotnet")
    @@ ("opentelemetry/dotnet/opentelemetry-dotnet-instrumentation" :> "opentelemetry_dotnet")
    @@ ("opentelemetry/dotnet/elastic" :> "opentelemetry_dotnet")

(* Members every object literal inherits from Object.prototype. *)
ObjectPrototypeMembers == {"constructor", "toString"}

(* Agent names given to the lookup: the catalog's keys, agent names that   *)
(* are no key (the functional test's 'node' among them), and names of      *)
(* inherited members.                                                      *)
UnrecognizedAgentNames ==
    {"node", "go", "opentelemetry/go", "opentelemetry/java/other", "nodejs.json", ""}

AgentNames ==
    DOMAIN AGENT_NAME_DASHBOARD_FILE_MAPPING
        \cup UnrecognizedAgentNames \cup ObjectPrototypeMembers

(* AGENT_NAME_DASHBOARD_FILE_MAPPING[name]: a property read of the object  *)
(* literal.  An own key yields its string, a name found on the prototype   *)
(* chain yields that member, anything else yields undefined.               *)
LookupDashboardFile(name) ==
    IF name \in DOMAIN AGENT_NAME_DASHBOARD_FILE_MAPPING
    THEN Def(AGENT_NAME_DASHBOARD_FILE_MAPPING[name])
    ELSE IF name \in ObjectPrototypeMembers
         THEN JsFunction(name)
         ELSE Undefined

(* The JSON module a dynamic import('./<file>.json') resolves to. *)
JsonModule(file) == [json |-> file]

(* A faulty loader: the default case falls back to the Node.js dashboard. *)
loadDashboardFileWithFallback(f) ==
    IF f \in {Def("nodejs"), Def("opentelemetry_nodejs"), Def("java"),
              Def("opentelemetry_java"), Def("opentelemetry_dotnet")}
    THEN [import |-> Def("./" \o Val(f) \o ".json"),
          value |-> Def(JsonModule("./" \o Val(f) \o ".json"))]
    ELSE [import |-> Def("./nodejs.json"), value |-> Def(JsonModule("./nodejs.json"))]

(* A faulty loader: the switch has no case for the .NET dashboard. *)
loadDashboardFileWithoutDotnet(f) ==
    IF f \in {Def("nodejs"), Def("opentelemetry_nodejs"), Def("java"),
              Def("opentelemetry_java")}
    THEN [import |-> Def("./" \o Val(f) \o ".json"),
          value |-> Def(JsonModule("./" \o Val(f) \o ".json"))]
    ELSE [import |-> Undefined, value |-> Undefined]

(* loadDashboardFile, lines 24-60: the switch compares with ===; a case    *)
(* returns the import of its file, the default case breaks and the async   *)
(* function resolves to undefined.  The result names the file imported     *)
(* (none: undefined) and the value the promise resolves to.                *)
loadDashboardFile(f) ==
    CASE f = Def("nodejs") ->
            [import |-> Def("./nodejs.json"), value |-> Def(JsonModule("./nodejs.json"))]
      [] f = Def("opentelemetry_nodejs") ->
            [import |-> Def("./opentelemetry_nodejs.json"),
             value |-> Def(JsonModule("./opentelemetry_nodejs.json"))]
      [] f = Def("java") ->
            [import |-> Def("./java.json"), value |-> Def(JsonModule("./java.json"))]
      [] f = Def("opentelemetry_java") ->
            [import |-> Def("./opentelemetry_java.json"),
             value |-> Def(JsonModule("./opentelemetry_java.json"))]
      [] f = Def("opentelemetry_dotnet") ->
            [import |-> Def("./opentelemetry_dotnet.json"),
             value |-> Def(JsonModule("./opentelemetry_dotnet.json"))]
      [] OTHER ->
            [import |-> Undefined, value |-> Undefined]

(* Filenames given to loadDashboardFile directly, besides lookup results. *)
OtherFilenames ==
    {Def("nodejs.json"), Def("NodeJS"), Def("opentelemetry/nodejs"), Def("python"),
     Def(""), Undefined}

(* The variables of the component of part 2. *)
VARIABLES
    store,              \* the shared state store the component selects from
    mounted,            \* an instance of the component is mounted
    pending,            \* a re-render (commit and effects) is due
    groupResults,       \* useState, line 188
    overrides,          \* useState, line 189
    shouldStart,        \* useState, line 192
    toggleIdSelected,   \* useState, line 193
    skippedFields,      \* useState, line 199 (Undefined stands for null)
    analysisStartTime,  \* useRef, line 184
    deps,               \* the effect dependencies of the last commit
    calls,              \* the external calls of the last step, in order
    lastAction          \* the step taken last

componentVars ==
    <<mounted, pending, groupResults, overrides, shouldStart, toggleIdSelected,
      skippedFields, analysisStartTime, deps>>
analysisVars == <<store, componentVars, calls, lastAction>>

(* The variables of the create-rule flyout of part 3. *)
VARIABLES
    flyout,         \* "closed" or "open"
    ruleType,       \* the rule type selected in the flyout
    ruleName,       \* the value of ruleNameInput
    actions,        \* the actions of the rule form, in the order of their accordions
    modal,          \* the confirmation modal shown, or "none"
    rules,          \* the rules created, as the rules list shows them
    toast,          \* the title of the toast shown
    lastClick       \* the element the last step acted on

flyoutVars == <<flyout, ruleType, ruleName, actions, modal, rules, toast, lastClick>>

InitCatalog ==
    /\ agentName = ""
    /\ filename = Undefined
    /\ dashboard = Undefined
    /\ settled = "none"
    /\ viaLookup = FALSE
    /\ imported = {}

(* A caller reads the mapping for an agent name. *)
ResolveAgentName(name) ==
    /\ agentName' = name
    /\ filename' = LookupDashboardFile(name)
    /\ dashboard' = Undefined
    /\ settled' = "none"
    /\ viaLookup' = TRUE
    /\ UNCHANGED imported
    /\ UNCHANGED <<analysisVars, flyoutVars>>

(* A caller awaits loadDashboardFile(f). *)
LoadCall(f) ==
    LET r == loadDashboardFile(f) IN
    /\ filename' = f
    /\ dashboard' = r.value
    /\ settled' = "fulfilled"
    /\ imported' = IF IsDef(r.import) THEN imported \cup {Val(r.import)} ELSE imported
    /\ UNCHANGED <<analysisVars, flyoutVars>>

(* ... with the filename the lookup produced *)
LoadResolved ==
    /\ viaLookup
    /\ settled = "none"
    /\ LoadCall(filename)
    /\ UNCHANGED <<agentName, viaLookup>>

(* ... or with a filename given directly. *)
LoadDirect ==
    \E f \in OtherFilenames \cup {LookupDashboardFile(n) : n \in AgentNames} :
        /\ LoadCall(f)
        /\ viaLookup' = FALSE
        /\ UNCHANGED agentName

NextCatalog ==
    \/ \E name \in AgentNames : ResolveAgentName(name)
    \/ LoadResolved
    \/ LoadDirect

(***************************************************************************)
(*              PART 2: the LogRateAnalysisResults component               *)
(***************************************************************************)
(* Bounds of the model. *)
LoadedFull == 2     \* data.loaded counts in steps of 1/LoadedFull; 1 is LoadedFull
MaxItems == 1       \* significant items a run finds at most
MaxErrors == 1      \* errors each error list holds at most

resultsGroupedOffId == "aiopsLogRateAnalysisGroupingOff"
resultsGroupedOnId == "aiopsLogRateAnalysisGroupingOn"

(* The field candidates the store holds once fetchFieldCandidates is done. *)
KeywordFields == <<"k1", "k2">>
TextFields == <<"t1">>

(* array.includes(x) *)
Includes(seq, x) == \E i \in 1..Len(seq) : seq[i] = x

(* The first n significant items of a run. *)
Items(n) == [i \in 1..n |-> i]

(* Window parameters of the chart; lodash isEqual is deep equality. *)
WindowParametersA ==
    [baselineMin |-> 10, baselineMax |-> 20, deviationMin |-> 30, deviationMax |-> 40]
WindowParametersB ==
    [baselineMin |-> 10, baselineMax |-> 15, deviationMin |-> 30, deviationMax |-> 35]

(* getSwappedWindowParameters: baseline and deviation swapped. *)
getSwappedWindowParameters(wp) ==
    [baselineMin |-> wp.deviationMin, baselineMax |-> wp.deviationMax,
     deviationMin |-> wp.baselineMin, deviationMax |-> wp.baselineMax]

(* The result set as the stream reducer creates and resets it. *)
DefaultResults ==
    [loaded |-> 0,
     remainingKeywordFieldCandidates |-> Undefined,
     remainingTextFieldCandidates |-> Undefined,
     groupsMissing |-> FALSE,
     significantItems |-> <<>>,
     significantItemsGroups |-> <<>>,
     errors |-> <<>>]

InitialStore ==
    [analysisType |-> "spike",
     earliest |-> Undefined,
     latest |-> Undefined,
     chartWindowParameters |-> Undefined,
     isRunning |-> FALSE,
     streamErrors |-> <<>>,
     data |-> DefaultResults,
     currentAnalysisWindowParameters |-> Undefined,
     fieldCandidates |->
        [isLoading |-> FALSE,
         fieldFilterUniqueItems |-> <<>>,
         fieldFilterSkippedItems |-> <<>>,
         keywordFieldCandidates |-> <<>>,
         textFieldCandidates |-> <<>>]]

(* One external call: a dispatched action, abort(), or the metric report. *)
Call(type, payload) == [type |-> type, payload |-> payload]
NoPayload == <<>>

(* The store's reducers for the actions the component dispatches. *)
Reduce(s, c) ==
    CASE c.type = "resetResults" -> [s EXCEPT !.data = DefaultResults]
      [] c.type = "setCurrentAnalysisWindowParameters" ->
            [s EXCEPT !.currentAnalysisWindowParameters = c.payload]
      [] c.type = "startStream" -> [s EXCEPT !.isRunning = TRUE, !.streamErrors = <<>>]
      [] c.type = "cancelStream" -> [s EXCEPT !.isRunning = FALSE]
      [] c.type = "fetchFieldCandidates" -> [s EXCEPT !.fieldCandidates.isLoading = TRUE]
      [] OTHER -> s

RECURSIVE ReduceAll(_, _)
ReduceAll(s, cs) == IF cs = <<>> THEN s ELSE ReduceAll(Reduce(s, Head(cs)), Tail(cs))

(***************************************************************************)
(* The component.  A handler or an effect reads the values of the render   *)
(* it was created in; every step that changes state or store is followed   *)
(* by a commit (Render) before the next step, so those are the current     *)
(* values.                                                                 *)
(***************************************************************************)
(* useRef(new AbortController()), line 185: the ref object of the         *)
(* instance; abort() is a call on the controller it holds.                 *)
abortCtrl == "abortCtrl.current"

(* JavaScript truthiness of an optional number: !x holds for undefined, 0. *)
Truthy(o) == IsDef(o) /\ Val(o) # 0

(* A faulty combination: the result set's errors first. *)
errorsResultsFirst == store.data.errors \o store.streamErrors

(* Line 293: errors = [...streamErrors, ...data.errors] *)
errors == store.streamErrors \o store.data.errors

(* A faulty filter: the negation of includes() is lost. *)
OnlySkipped(candidates, skipped) ==
    SelectSeq(candidates, LAMBDA d : ~IsDef(skipped) \/ Includes(Val(skipped), d))

(* The remaining candidates of a fresh run, lines 301-306. *)
NotSkipped(candidates, skipped) ==
    SelectSeq(candidates, LAMBDA d : ~IsDef(skipped) \/ ~Includes(Val(skipped), d))

(* startParams, lines 325-365.  http, searchQuery, the data view's fields, *)
(* sampleProbability and the origin header are passed through as they are  *)
(* and left out.                                                           *)
startParams ==
    IF ~IsDef(store.chartWindowParameters) \/ ~Truthy(store.earliest) \/ ~Truthy(store.latest)
    THEN Undefined
    ELSE Def([endpoint |-> "/internal/aiops/log_rate_analysis",
              apiVersion |-> "3",
              abortCtrl |-> abortCtrl,
              body |-> [start |-> Val(store.earliest),
                        end |-> Val(store.latest),
                        grouping |-> TRUE,
                        flushFix |-> TRUE,
                        windowParameters |->
                            IF store.analysisType = "spike"
                            THEN Val(store.chartWindowParameters)
                            ELSE getSwappedWindowParameters(Val(store.chartWindowParameters)),
                        overrides |-> overrides]])

(* The dependencies of the effects, lines 222, 291 and 373, as a render   *)
(* of the given store and state has them.                                  *)
Deps(s, start, skipped) ==
    [isRunning |-> s.isRunning,
     shouldStart |-> start,
     fieldFilterSkippedItems |-> s.fieldCandidates.fieldFilterSkippedItems,
     skippedFields |-> skipped]

(* What a handler leaves behind: its calls, the store they produce, and a  *)
(* commit that is due when a dependency of an effect changed (a render     *)
(* that runs no effect changes nothing).                                   *)
Handled(name, cs) ==
    /\ calls' = cs
    /\ store' = ReduceAll(store, cs)
    /\ lastAction' = name
    /\ pending' = (Deps(store', shouldStart', skippedFields') # deps)
    /\ UNCHANGED <<mounted, deps, analysisStartTime>>
    /\ UNCHANGED <<catalogVars, flyoutVars>>

(* A handler can run when the component is mounted and committed. *)
Interactive == mounted /\ ~pending

(* getGroupTableItems, lines 385-388: one table item per group, holding   *)
(* the group's items sorted by uniqueness.                                 *)
groupTableItems ==
    [g \in 1..Len(store.data.significantItemsGroups) |->
        [groupItemsSortedByUniqueness |-> store.data.significantItemsGroups[g]]]

RECURSIVE SumOfLengths(_)
SumOfLengths(items) ==
    IF items = <<>> THEN 0
    ELSE Len(Head(items).groupItemsSortedByUniqueness) + SumOfLengths(Tail(items))

(* Lines 411-414 *)
groupItemCount == SumOfLengths(groupTableItems)
foundGroups == Len(groupTableItems) > 0 /\ groupItemCount > 0

(* Line 418; isDisabled of the button group, line 455 *)
disabledGroupResultsSwitch == ~foundGroups /\ ~groupResults

(* shouldRerunAnalysis, lines 403-408 *)
shouldRerunAnalysis ==
    /\ store.currentAnalysisWindowParameters # Undefined
    /\ store.currentAnalysisWindowParameters # store.chartWindowParameters

(* Line 410 *)
showLogRateAnalysisResultsTable == Len(store.data.significantItems) > 0

(* A faulty prompt: shown whenever there is no significant item. *)
EmptyPromptRenderedWhileRunning == ~showLogRateAnalysisResultsTable

(* The 'no results' prompt, lines 549-570 *)
EmptyPromptRendered == ~store.isRunning /\ ~showLogRateAnalysisResultsTable

(* LogRateAnalysisResultsGroupsTable, lines 584-593 *)
GroupsTableRendered == showLogRateAnalysisResultsTable /\ groupResults

(* LogRateAnalysisResultsTable, lines 594-601 *)
ItemsTableRendered == showLogRateAnalysisResultsTable /\ ~groupResults

(* A faulty toggle: the row state is left as it is. *)
onGroupResultsToggleWithoutClearing(optionId) ==
    /\ Interactive
    /\ ~disabledGroupResultsSwitch
    /\ toggleIdSelected' = optionId
    /\ groupResults' = (optionId = resultsGroupedOnId)
    /\ UNCHANGED <<overrides, shouldStart, skippedFields>>
    /\ Handled("onGroupResultsToggle", <<>>)

(* onGroupResultsToggle, lines 201-207; onChange of the button group,      *)
(* lines 452-460, which is disabled with disabledGroupResultsSwitch.       *)
onGroupResultsToggle(optionId) ==
    /\ Interactive
    /\ ~disabledGroupResultsSwitch
    /\ toggleIdSelected' = optionId
    /\ groupResults' = (optionId = resultsGroupedOnId)
    /\ UNCHANGED <<overrides, shouldStart, skippedFields>>
    /\ Handled("onGroupResultsToggle", <<Call("clearAllRowState", NoPayload)>>)

(* A faulty cancel: the stream is cancelled before the request is aborted. *)
cancelHandlerDispatchFirst ==
    /\ Interactive
    /\ UNCHANGED <<groupResults, overrides, shouldStart, toggleIdSelected, skippedFields>>
    /\ Handled("cancelHandler",
               <<Call("cancelStream", NoPayload), Call("abort", abortCtrl)>>)

(* cancelHandler, lines 244-247 *)
cancelHandler ==
    /\ Interactive
    /\ UNCHANGED <<groupResults, overrides, shouldStart, toggleIdSelected, skippedFields>>
    /\ Handled("cancelHandler",
               <<Call("abort", abortCtrl), Call("cancelStream", NoPayload)>>)

(* A faulty start handler: it starts the stream itself, with the start    *)
(* parameters of the render it was created in.                             *)
startHandlerCallsStartingDirectly(continueAnalysis, resetGroupButton) ==
    (IF ~continueAnalysis THEN <<Call("resetResults", NoPayload)>> ELSE <<>>)
    \o (IF resetGroupButton THEN <<Call("clearAllRowState", NoPayload)>> ELSE <<>>)
    \o <<Call("setCurrentAnalysisType", store.analysisType),
         Call("setCurrentAnalysisWindowParameters", store.chartWindowParameters),
         Call("startStream", startParams)>>

(* A faulty start handler: the window parameters of the analysis are not   *)
(* recorded.                                                               *)
startHandlerCallsWithoutWindowParameters(continueAnalysis, resetGroupButton) ==
    (IF ~continueAnalysis THEN <<Call("resetResults", NoPayload)>> ELSE <<>>)
    \o (IF resetGroupButton THEN <<Call("clearAllRowState", NoPayload)>> ELSE <<>>)
    \o <<Call("setCurrentAnalysisType", store.analysisType)>>

(* startHandler, lines 297-323: the calls it makes, in order ... *)
startHandlerCalls(continueAnalysis, resetGroupButton) ==
    (IF ~continueAnalysis THEN <<Call("resetResults", NoPayload)>> ELSE <<>>)
    \o (IF resetGroupButton THEN <<Call("clearAllRowState", NoPayload)>> ELSE <<>>)
    \o <<Call("setCurrentAnalysisType", store.analysisType),
         Call("setCurrentAnalysisWindowParameters", store.chartWindowParameters)>>

(* A faulty start handler: the overrides are replaced on every start. *)
startHandlerOverridesAlways(continueAnalysis, base) ==
    Def([remainingKeywordFieldCandidates |->
             Def(NotSkipped(store.fieldCandidates.keywordFieldCandidates, skippedFields)),
         remainingTextFieldCandidates |->
             Def(NotSkipped(store.fieldCandidates.textFieldCandidates, skippedFields))])

(* ... the overrides it sets when the analysis is not continued; base is   *)
(* the value the state has otherwise ...                                   *)
startHandlerOverrides(continueAnalysis, base) ==
    IF ~continueAnalysis
    THEN Def([remainingKeywordFieldCandidates |->
                  Def(NotSkipped(store.fieldCandidates.keywordFieldCandidates, skippedFields)),
              remainingTextFieldCandidates |->
                  Def(NotSkipped(store.fieldCandidates.textFieldCandidates, skippedFields))])
    ELSE base

(* A faulty reset: grouping is turned off but the switch keeps its id. *)
startHandlerStateKeepingToggleId(continueAnalysis, resetGroupButton, base) ==
    /\ overrides' = startHandlerOverrides(continueAnalysis, base)
    /\ groupResults' = IF resetGroupButton THEN FALSE ELSE groupResults
    /\ toggleIdSelected' = toggleIdSelected
    /\ shouldStart' = TRUE

(* ... and its state updates. *)
startHandlerState(continueAnalysis, resetGroupButton, base) ==
    /\ overrides' = startHandlerOverrides(continueAnalysis, base)
    /\ groupResults' = IF resetGroupButton THEN FALSE ELSE groupResults
    /\ toggleIdSelected' = IF resetGroupButton THEN resultsGroupedOffId ELSE toggleIdSelected
    /\ shouldStart' = TRUE

(* onRefresh of the progress controls, line 440: startHandler(false) *)
Refresh ==
    /\ Interactive
    /\ startHandlerState(FALSE, TRUE, overrides)
    /\ UNCHANGED skippedFields
    /\ Handled("refresh", startHandlerCalls(FALSE, TRUE))

(* The error callout, lines 500-541: rendered when there are errors, with  *)
(* their number in the title, one paragraph for a single error and a list *)
(* item per error otherwise, and the continue button when overrides is    *)
(* defined.                                                                *)
ErrorCallOut ==
    IF Len(errors) > 0
    THEN Def([errorCount |-> Len(errors),
              text |-> IF Len(errors) = 1
                       THEN [tag |-> "p", items |-> <<errors[1]>>]
                       ELSE [tag |-> "ul", items |-> [i \in 1..Len(errors) |-> errors[i]]],
              continueButton |-> IsDef(overrides)])
    ELSE Undefined

(* The 'Try to continue analysis' button, lines 523-536; its onClick is    *)
(* startHandler(true).                                                     *)
ContinueButtonRendered == IsDef(ErrorCallOut) /\ Val(ErrorCallOut).continueButton

Continue ==
    /\ Interactive
    /\ ContinueButtonRendered
    /\ startHandlerState(TRUE, TRUE, overrides)
    /\ UNCHANGED skippedFields
    /\ Handled("continue", startHandlerCalls(TRUE, TRUE))

(* fieldFilterButtonDisabled, lines 215-216 *)
fieldFilterButtonDisabled ==
    \/ store.isRunning
    \/ store.fieldCandidates.isLoading
    \/ Len(store.fieldCandidates.fieldFilterUniqueItems) = 0

(* The selections the field filter popover is applied with. *)
SkipChoices == {<<>>, <<"k1", "t1">>}

(* A faulty filter change: the text field candidates are passed on whole. *)
onFieldsFilterChangeOverridesKeepingText(skippedFieldsUpdate) ==
    Def([loaded |-> 0,
         remainingKeywordFieldCandidates |->
            Def(SelectSeq(store.fieldCandidates.keywordFieldCandidates,
                          LAMBDA d : ~Includes(skippedFieldsUpdate, d))),
         remainingTextFieldCandidates |-> Def(store.fieldCandidates.textFieldCandidates),
         regroupOnly |-> FALSE])

(* onFieldsFilterChange, lines 224-238, with its call startHandler(true, false) *)
onFieldsFilterChangeOverrides(skippedFieldsUpdate) ==
    Def([loaded |-> 0,
         remainingKeywordFieldCandidates |->
            Def(SelectSeq(store.fieldCandidates.keywordFieldCandidates,
                          LAMBDA d : ~Includes(skippedFieldsUpdate, d))),
         remainingTextFieldCandidates |->
            Def(SelectSeq(store.fieldCandidates.textFieldCandidates,
                          LAMBDA d : ~Includes(skippedFieldsUpdate, d))),
         regroupOnly |-> FALSE])

onFieldsFilterChange(skippedFieldsUpdate) ==
    /\ Interactive
    /\ ~fieldFilterButtonDisabled
    /\ skippedFields' = Def(skippedFieldsUpdate)
    /\ startHandlerState(TRUE, FALSE, onFieldsFilterChangeOverrides(skippedFieldsUpdate))
    /\ Handled("onFieldsFilterChange",
               <<Call("resetResults", NoPayload)>> \o startHandlerCalls(TRUE, FALSE))

(***************************************************************************)
(* The effects.  Each is given as the state it sets and the calls it makes *)
(* when it runs in the current render.                                     *)
(***************************************************************************)
(* A faulty initialisation: the store's list is copied whenever it is not  *)
(* empty.                                                                  *)
SkippedFieldsEffectSetsAlways ==
    Len(store.fieldCandidates.fieldFilterSkippedItems) > 0

(* useEffect, lines 219-222 *)
SkippedFieldsEffectSets ==
    ~IsDef(skippedFields) /\ Len(store.fieldCandidates.fieldFilterSkippedItems) > 0

(* useEffect([isRunning]), lines 249-291: the branch it takes *)
Resumable(data) ==
    /\ data.loaded < LoadedFull
    /\ \/ (IsDef(data.remainingKeywordFieldCandidates)
            /\ Len(Val(data.remainingKeywordFieldCandidates)) > 0)
       \/ (IsDef(data.remainingTextFieldCandidates)
            /\ Len(Val(data.remainingTextFieldCandidates)) > 0)
       \/ data.groupsMissing

(* A faulty effect: the overrides are reset whenever the run cannot be     *)
(* resumed.                                                                *)
IsRunningEffectBranchResettingAtZero ==
    IF store.isRunning THEN "none"
    ELSE IF Resumable(store.data) THEN "resume"
    ELSE "reset"

IsRunningEffectBranch ==
    IF store.isRunning THEN "none"
    ELSE IF Resumable(store.data) THEN "resume"
    ELSE IF store.data.loaded > 0 THEN "reset"
    ELSE "none"

(* A faulty capture: the significant items found so far are left out. *)
ResumeOverridesWithoutItems(data) ==
    Def([loaded |-> data.loaded,
         remainingKeywordFieldCandidates |-> data.remainingKeywordFieldCandidates,
         remainingTextFieldCandidates |-> data.remainingTextFieldCandidates])

ResumeOverrides(data) ==
    Def([loaded |-> data.loaded,
         remainingKeywordFieldCandidates |-> data.remainingKeywordFieldCandidates,
         remainingTextFieldCandidates |-> data.remainingTextFieldCandidates,
         significantItems |-> data.significantItems])

(* A faulty report: the start time is not looked at. *)
ReportsMetricEveryTime(branch) == branch = "reset"

(* Lines 272-287: the metric is reported in the reset branch while the     *)
(* start time is set.                                                      *)
ReportsMetric(branch) == branch = "reset" /\ IsDef(analysisStartTime)

(* useEffect([shouldStart]), lines 367-373 *)
ShouldStartEffectStarts == shouldStart /\ IsDef(startParams)

(* useEffect([]), lines 375-383 *)
MountEffectCalls ==
    IF IsDef(startParams)
    THEN <<Call("fetchFieldCandidates", startParams),
           Call("setCurrentAnalysisType", store.analysisType),
           Call("setCurrentAnalysisWindowParameters", store.chartWindowParameters),
           Call("startStream", startParams)>>
    ELSE <<>>

(* A commit: the effects whose dependencies changed run in the order they  *)
(* are declared (all of them, and the mount effect, when first is TRUE).   *)
RunEffects(first, name) ==
    LET runSkipped == first \/ deps.fieldFilterSkippedItems # store.fieldCandidates.fieldFilterSkippedItems
                            \/ deps.skippedFields # skippedFields
        runIsRunning == first \/ deps.isRunning # store.isRunning
        runShouldStart == first \/ deps.shouldStart # shouldStart
        branch == IF runIsRunning THEN IsRunningEffectBranch ELSE "none"
        report == ReportsMetric(branch)
        starts == runShouldStart /\ ShouldStartEffectStarts
        cs == (IF report THEN <<Call("reportPerformanceMetricEvent", "aiopsLogRateAnalysisCompleted")>>
               ELSE <<>>)
              \o (IF starts THEN <<Call("startStream", startParams)>> ELSE <<>>)
              \o (IF first THEN MountEffectCalls ELSE <<>>)
    IN  /\ skippedFields' = IF runSkipped /\ SkippedFieldsEffectSets
                            THEN Def(store.fieldCandidates.fieldFilterSkippedItems)
                            ELSE skippedFields
        /\ overrides' = CASE branch = "resume" -> ResumeOverrides(store.data)
                          [] branch = "reset" -> Undefined
                          [] OTHER -> overrides
        /\ analysisStartTime' = IF report THEN Undefined ELSE analysisStartTime
        /\ shouldStart' = IF starts THEN FALSE ELSE shouldStart
        /\ calls' = cs
        /\ store' = ReduceAll(store, cs)
        /\ deps' = Deps(store, shouldStart, skippedFields)
        /\ pending' = (Deps(store', shouldStart', skippedFields') # deps')
        /\ lastAction' = name
        /\ UNCHANGED <<groupResults, toggleIdSelected>>
        /\ UNCHANGED <<catalogVars, flyoutVars>>

Render ==
    /\ mounted
    /\ pending
    /\ RunEffects(FALSE, "render")
    /\ UNCHANGED mounted

(* The state of a new instance, lines 184-199. *)
InitialComponent ==
    /\ groupResults = FALSE
    /\ overrides = Undefined
    /\ shouldStart = FALSE
    /\ toggleIdSelected = resultsGroupedOffId
    /\ skippedFields = Undefined
    /\ analysisStartTime = Def("performance.now()")
    /\ deps = [isRunning |-> FALSE, shouldStart |-> FALSE,
               fieldFilterSkippedItems |-> <<>>, skippedFields |-> Undefined]
    /\ pending = FALSE

(* The first render of an instance and its effects. *)
Mount ==
    /\ ~mounted
    /\ mounted' = TRUE
    /\ RunEffects(TRUE, "mount")

(* The instance is removed; its state and refs are gone. *)
Unmount ==
    /\ mounted
    /\ ~pending
    /\ mounted' = FALSE
    /\ groupResults' = FALSE
    /\ overrides' = Undefined
    /\ shouldStart' = FALSE
    /\ toggleIdSelected' = resultsGroupedOffId
    /\ skippedFields' = Undefined
    /\ analysisStartTime' = Def("performance.now()")
    /\ deps' = [isRunning |-> FALSE, shouldStart |-> FALSE,
                fieldFilterSkippedItems |-> <<>>, skippedFields |-> Undefined]
    /\ pending' = FALSE
    /\ calls' = <<>>
    /\ lastAction' = "unmount"
    /\ UNCHANGED store
    /\ UNCHANGED <<catalogVars, flyoutVars>>

(***************************************************************************)
(* The environment: what other parts of the application and the running    *)
(* stream write to the store.  A change re-renders a mounted component.    *)
(***************************************************************************)
StoreChanged(name) ==
    /\ ~pending
    /\ pending' = (mounted /\ Deps(store', shouldStart, skippedFields) # deps)
    /\ calls' = <<>>
    /\ lastAction' = name
    /\ UNCHANGED <<mounted, groupResults, overrides, shouldStart, toggleIdSelected,
                   skippedFields, analysisStartTime, deps>>
    /\ UNCHANGED <<catalogVars, flyoutVars>>

(* The chart selection and time range the page holds: nothing selected,  *)
(* a spike and a dip selected with the time range known, a selection      *)
(* whose time range is not known yet, and one whose time range starts at   *)
(* the epoch (timestamp 0).                                                *)
ChartStates ==
    {[chartWindowParameters |-> Undefined, earliest |-> Undefined, latest |-> Undefined,
      analysisType |-> "spike"],
     [chartWindowParameters |-> Def(WindowParametersA), earliest |-> Def(100),
      latest |-> Def(200), analysisType |-> "spike"],
     [chartWindowParameters |-> Def(WindowParametersB), earliest |-> Def(100),
      latest |-> Def(200), analysisType |-> "dip"],
     [chartWindowParameters |-> Def(WindowParametersA), earliest |-> Def(100),
      latest |-> Undefined, analysisType |-> "spike"],
     [chartWindowParameters |-> Def(WindowParametersA), earliest |-> Def(0),
      latest |-> Def(200), analysisType |-> "spike"]}

WithChart(s, c) ==
    [s EXCEPT !.chartWindowParameters = c.chartWindowParameters,
              !.earliest = c.earliest,
              !.latest = c.latest,
              !.analysisType = c.analysisType]

ChartChange ==
    \E c \in ChartStates :
        /\ store' = WithChart(store, c)
        /\ store' # store
        /\ StoreChanged("storeChange")

(* fetchFieldCandidates is fulfilled, with the given list of fields that   *)
(* are skipped by default.                                                 *)
FieldCandidatesFulfilled(skipped) ==
    /\ store.fieldCandidates.isLoading
    /\ store' = [store EXCEPT !.fieldCandidates =
                    [isLoading |-> FALSE,
                     fieldFilterUniqueItems |-> KeywordFields \o TextFields,
                     fieldFilterSkippedItems |-> skipped,
                     keywordFieldCandidates |-> KeywordFields,
                     textFieldCandidates |-> TextFields]]
    /\ StoreChanged("storeChange")

FieldCandidatesLoaded == FieldCandidatesFulfilled(<<>>)

(* The field candidates are fetched again on behalf of another consumer   *)
(* of the store.                                                           *)
FieldCandidatesRefetched ==
    /\ ~store.fieldCandidates.isLoading
    /\ ~store.isRunning
    /\ store' = [store EXCEPT !.fieldCandidates.isLoading = TRUE]
    /\ StoreChanged("storeChange")

FieldCandidatesLoadedWithSkipped == FieldCandidatesFulfilled(<<"k2">>)

(* What a loading-state update reports besides the loaded fraction: the   *)
(* keyword and text candidates still to do and whether groups are missing; *)
(* every way of having work left, alone, and none.                         *)
LoadingStates ==
    {[keyword |-> Undefined, text |-> Undefined, groupsMissing |-> FALSE],
     [keyword |-> Def(<<"k2">>), text |-> Def(<<>>), groupsMissing |-> FALSE],
     [keyword |-> Def(<<>>), text |-> Def(<<"t1">>), groupsMissing |-> FALSE],
     [keyword |-> Def(<<>>), text |-> Def(<<>>), groupsMissing |-> TRUE],
     [keyword |-> Def(<<>>), text |-> Def(<<>>), groupsMissing |-> FALSE]}

StreamChanged(name) ==
    /\ store.isRunning
    /\ store' # store
    /\ StoreChanged(name)

(* The running stream reports its progress ... *)
UpdateLoadingState ==
    \E l \in 0..LoadedFull, r \in LoadingStates :
        /\ l >= store.data.loaded
        /\ store' = [store EXCEPT !.data.loaded = l,
                                  !.data.remainingKeywordFieldCandidates = r.keyword,
                                  !.data.remainingTextFieldCandidates = r.text,
                                  !.data.groupsMissing = r.groupsMissing]
        /\ StreamChanged("storeChange")

(* ... adds a significant item ... *)
AddSignificantItems ==
    /\ Len(store.data.significantItems) < MaxItems
    /\ store' = [store EXCEPT !.data.significantItems = Items(Len(@) + 1)]
    /\ StreamChanged("storeChange")

(* ... adds the group of the items found ... *)
AddSignificantItemsGroup ==
    /\ Len(store.data.significantItems) > 0
    /\ store' = [store EXCEPT !.data.significantItemsGroups = <<store.data.significantItems>>]
    /\ StreamChanged("storeChange")

(* ... or adds an error to the result set. *)
AddError ==
    /\ Len(store.data.errors) < MaxErrors
    /\ store' = [store EXCEPT !.data.errors = Append(@, <<"result", Len(@) + 1>>)]
    /\ StreamChanged("storeChange")

(* The stream ends: it is done or was cancelled ... *)
StreamEnd ==
    /\ store.isRunning
    /\ store' = [store EXCEPT !.isRunning = FALSE]
    /\ StoreChanged("storeChange")

(* ... or it failed with an error. *)
StreamError ==
    /\ store.isRunning
    /\ Len(store.streamErrors) < MaxErrors
    /\ store' = [store EXCEPT !.isRunning = FALSE,
                              !.streamErrors = Append(@, <<"stream", Len(@) + 1>>)]
    /\ StoreChanged("storeChange")

(* A whole run at once: the stream delivers the complete result and ends. *)
StreamCompleted ==
    /\ store.isRunning
    /\ store' = [store EXCEPT !.isRunning = FALSE,
                              !.data = [DefaultResults EXCEPT
                                            !.loaded = LoadedFull,
                                            !.remainingKeywordFieldCandidates = Def(<<>>),
                                            !.remainingTextFieldCandidates = Def(<<>>),
                                            !.significantItems = Items(MaxItems),
                                            !.significantItemsGroups =
                                                IF MaxItems > 0 THEN <<Items(MaxItems)>> ELSE <<>>]]
    /\ StoreChanged("storeChange")

(***************************************************************************)
(*                     PART 3: the create-rule flyout                      *)
(* The flyout as alert_create_flyout.ts drives it and expects it to        *)
(* behave; the names are the test subjects the suite uses.                 *)
(***************************************************************************)
(* Bounds of the model. *)
MaxActions == 2     \* actions a rule form holds at most
MaxRules == 2       \* rules that exist at a time at most

RuleTypes == {".es-query", "test.always-firing"}
RuleTypeLabel(t) == IF t = "test.always-firing" THEN "Always Firing" ELSE "Elasticsearch query"
RuleNames == {"alertName", "ruleName"}
ActionTypes == {".webhook", ".slack"}
DefaultMessage == "Rule {{rule.name}} is active"
MessageBodies == {DefaultMessage, "myUniqueKey"}
DefaultInterval == "1 min"

InitFlyout ==
    /\ flyout = "closed"
    /\ ruleType = Undefined
    /\ ruleName = ""
    /\ actions = <<>>
    /\ modal = "none"
    /\ rules = <<>>
    /\ toast = Undefined
    /\ lastClick = "none"

(* A step of the flyout leaves the other parts alone. *)
Clicked(name) ==
    /\ lastClick' = name
    /\ UNCHANGED <<catalogVars, analysisVars>>

(* The form can be edited: the flyout is open with a rule type selected    *)
(* and no modal in front of it.                                            *)
FormUsable == flyout = "open" /\ modal = "none" /\ IsDef(ruleType)

(* The form differs from the one the flyout opened with. *)
HasRuleChanged == ruleName # "" \/ actions # <<>>

(* The flyout closes and its form is gone. *)
CloseFlyout ==
    /\ flyout' = "closed"
    /\ ruleType' = Undefined
    /\ ruleName' = ""
    /\ actions' = <<>>
    /\ modal' = "none"

clickCreateAlertButton ==
    /\ flyout = "closed"
    /\ Len(rules) < MaxRules
    /\ flyout' = "open"
    /\ UNCHANGED <<ruleType, ruleName, actions, modal, rules, toast>>
    /\ Clicked("createRuleButton")

SelectOption(t) ==
    /\ flyout = "open"
    /\ modal = "none"
    /\ ~IsDef(ruleType)
    /\ ruleType' = Def(t)
    /\ UNCHANGED <<flyout, ruleName, actions, modal, rules, toast>>
    /\ Clicked("SelectOption")

ruleNameInput(name) ==
    /\ FormUsable
    /\ ruleName' = name
    /\ ruleName' # ruleName
    /\ UNCHANGED <<flyout, ruleType, actions, modal, rules, toast>>
    /\ Clicked("ruleNameInput")

(* An action of the given type is added, with the default message. *)
ActionTypeSelectOption(type) ==
    /\ FormUsable
    /\ Len(actions) < MaxActions
    /\ actions' = Append(actions, [type |-> type, body |-> DefaultMessage])
    /\ UNCHANGED <<flyout, ruleType, ruleName, modal, rules, toast>>
    /\ Clicked("ActionTypeSelectOption")

(* The message body of the action at position i (from 0) is set. *)
setActionBody(i, body) ==
    /\ FormUsable
    /\ i + 1 \in 1..Len(actions)
    /\ actions' = [actions EXCEPT ![i + 1].body = body]
    /\ actions' # actions
    /\ UNCHANGED <<flyout, ruleType, ruleName, modal, rules, toast>>
    /\ Clicked("kibanaCodeEditor")

(* The accordions left when the one at position i (from 0) is deleted; a  *)
(* faulty form keeps the parameters by position instead of by action.      *)
DeleteKeepingParametersByPosition(as, i) ==
    [j \in 1..(Len(as) - 1) |->
        [type |-> (IF j < i + 1 THEN as[j] ELSE as[j + 1]).type, body |-> as[j].body]]

WithoutAction(as, i) ==
    [j \in 1..(Len(as) - 1) |-> IF j < i + 1 THEN as[j] ELSE as[j + 1]]

(* [data-test-subj="alertActionAccordion-i"] [aria-label="Delete"] *)
deleteAction(i) ==
    /\ FormUsable
    /\ i + 1 \in 1..Len(actions)
    /\ actions' = WithoutAction(actions, i)
    /\ UNCHANGED <<flyout, ruleType, ruleName, modal, rules, toast>>
    /\ Clicked("alertActionAccordion-" \o ToString(i))

(* A faulty flyout: closing always asks for confirmation. *)
cancelSaveRuleButtonAlwaysAsking ==
    /\ FormUsable
    /\ modal' = "confirmRuleCloseModal"
    /\ UNCHANGED <<flyout, ruleType, ruleName, actions, rules, toast>>
    /\ Clicked("cancelSaveRuleButton")

(* Closing asks for confirmation when the form has unsaved edits. *)
cancelSaveRuleButton ==
    /\ FormUsable
    /\ IF HasRuleChanged
       THEN /\ modal' = "confirmRuleCloseModal"
            /\ UNCHANGED <<flyout, ruleType, ruleName, actions>>
       ELSE CloseFlyout
    /\ UNCHANGED <<rules, toast>>
    /\ Clicked("cancelSaveRuleButton")

(* confirmRuleCloseModal > confirmModalCancelButton: back to the form ... *)
confirmRuleCloseModalCancel ==
    /\ modal = "confirmRuleCloseModal"
    /\ modal' = "none"
    /\ UNCHANGED <<flyout, ruleType, ruleName, actions, rules, toast>>
    /\ Clicked("confirmRuleCloseModal > confirmModalCancelButton")

(* ... confirmModalConfirmButton: the edits are discarded. *)
confirmRuleCloseModalConfirm ==
    /\ modal = "confirmRuleCloseModal"
    /\ CloseFlyout
    /\ UNCHANGED <<rules, toast>>
    /\ Clicked("confirmRuleCloseModal > confirmModalConfirmButton")

(* The rule of the form is created, a toast says so, the flyout closes. *)
CreateRule ==
    /\ rules' = Append(rules, [name |-> ruleName \o RuleTypeLabel(Val(ruleType)),
                               tags |-> "",
                               interval |-> DefaultInterval])
    /\ toast' = Def("Created rule \"" \o ruleName \o "\"")
    /\ CloseFlyout

(* The save button can be used: the form is usable.  The parameters an    *)
(* Elasticsearch query rule requires are not part of the form modelled,    *)
(* so only the always-firing rule, which requires none, is saved.          *)
SaveRuleButtonUsable == FormUsable

(* A faulty flyout: a rule without actions is created without asking. *)
saveRuleButtonWithoutAsking ==
    /\ SaveRuleButtonUsable
    /\ ruleType = Def("test.always-firing")
    /\ ruleName # ""
    /\ CreateRule
    /\ Clicked("saveRuleButton")

(* Saving a rule that has no actions asks for confirmation first. *)
saveRuleButton ==
    /\ SaveRuleButtonUsable
    /\ ruleType = Def("test.always-firing")
    /\ ruleName # ""
    /\ IF actions = <<>>
       THEN /\ modal' = "confirmRuleSaveModal"
            /\ UNCHANGED <<flyout, ruleType, ruleName, actions, rules, toast>>
       ELSE CreateRule
    /\ Clicked("saveRuleButton")

(* confirmRuleSaveModal > confirmModalCancelButton: back to the form ... *)
confirmRuleSaveModalCancel ==
    /\ modal = "confirmRuleSaveModal"
    /\ modal' = "none"
    /\ UNCHANGED <<flyout, ruleType, ruleName, actions, rules, toast>>
    /\ Clicked("confirmRuleSaveModal > confirmModalCancelButton")

(* ... confirmModalConfirmButton: the rule is created. *)
confirmRuleSaveModalConfirm ==
    /\ modal = "confirmRuleSaveModal"
    /\ CreateRule
    /\ Clicked("confirmRuleSaveModal > confirmModalConfirmButton")

(* toasts.getTitleAndDismiss *)
getTitleAndDismiss ==
    /\ IsDef(toast)
    /\ toast' = Undefined
    /\ UNCHANGED <<flyout, ruleType, ruleName, actions, modal, rules>>
    /\ Clicked("toast")

(* deleteAlerts: the suite removes the rules it created. *)
deleteAlerts ==
    /\ rules # <<>>
    /\ flyout = "closed"
    /\ rules' = <<>>
    /\ UNCHANGED <<flyout, ruleType, ruleName, actions, modal, toast>>
    /\ Clicked("deleteAlerts")

NextFlyout ==
    \/ clickCreateAlertButton
    \/ \E t \in RuleTypes : SelectOption(t)
    \/ \E name \in RuleNames \cup {""} : ruleNameInput(name)
    \/ \E type \in ActionTypes : ActionTypeSelectOption(type)
    \/ \E i \in 0..(MaxActions - 1), body \in MessageBodies : setActionBody(i, body)
    \/ \E i \in 0..(MaxActions - 1) : deleteAction(i)
    \/ cancelSaveRuleButton
    \/ confirmRuleCloseModalCancel
    \/ confirmRuleCloseModalConfirm
    \/ saveRuleButton
    \/ confirmRuleSaveModalCancel
    \/ confirmRuleSaveModalConfirm
    \/ getTitleAndDismiss
    \/ deleteAlerts

(***************************************************************************)
(*                           Specifications                                *)
(***************************************************************************)
vars == <<catalogVars, analysisVars, flyoutVars>>

InitAnalysis(s) ==
    /\ store = s
    /\ mounted = FALSE
    /\ InitialComponent
    /\ calls = <<>>
    /\ lastAction = "init"

(* The catalog alone. *)
CatalogInit == InitCatalog /\ InitAnalysis(InitialStore) /\ InitFlyout

CatalogSpec == CatalogInit /\ [][NextCatalog]_vars

(* The component on a page that holds a selection, with the stream in      *)
(* every step it takes.                                                    *)
Init ==
    /\ InitCatalog
    /\ InitFlyout
    /\ \E c \in ChartStates :
        /\ IsDef(c.chartWindowParameters) /\ c.analysisType = "spike"
        /\ Truthy(c.earliest) /\ Truthy(c.latest)
        /\ InitAnalysis(WithChart(InitialStore, c))

Next ==
    \/ Mount
    \/ Render
    \/ Unmount
    \/ Refresh
    \/ Continue
    \/ cancelHandler
    \/ \E id \in {resultsGroupedOffId, resultsGroupedOnId} : onGroupResultsToggle(id)
    \/ \E S \in SkipChoices : onFieldsFilterChange(S)
    \/ FieldCandidatesLoaded
    \/ UpdateLoadingState
    \/ AddSignificantItems
    \/ AddSignificantItemsGroup
    \/ AddError
    \/ StreamEnd
    \/ StreamError

Spec == Init /\ [][Next]_vars

(* The component on a page whose selection, time range and field           *)
(* candidates change, with the stream taken a whole run at a time.         *)
PageInit == InitCatalog /\ InitAnalysis(InitialStore) /\ InitFlyout

PageNext ==
    \/ Mount
    \/ Render
    \/ Unmount
    \/ Refresh
    \/ Continue
    \/ cancelHandler
    \/ \E id \in {resultsGroupedOffId, resultsGroupedOnId} : onGroupResultsToggle(id)
    \/ \E S \in SkipChoices : onFieldsFilterChange(S)
    \/ ChartChange
    \/ FieldCandidatesLoaded
    \/ FieldCandidatesLoadedWithSkipped
    \/ FieldCandidatesRefetched
    \/ StreamCompleted
    \/ StreamError

PageSpec == PageInit /\ [][PageNext]_vars

(* The same, with what the scheduling of React guarantees: a render that   *)
(* is due is committed and its effects run.                                *)
FairPageSpec == PageSpec /\ WF_vars(Render)

(* The flyout alone. *)
FlyoutInit == InitCatalog /\ InitAnalysis(InitialStore) /\ InitFlyout

FlyoutSpec == FlyoutInit /\ [][NextFlyout]_vars

(***************************************************************************)
(*                    Properties of the dashboard catalog                  *)
(***************************************************************************)
(* The five dashboard bundles and the catalog as the specification lists it. *)
Bundles == {"nodejs", "opentelemetry_nodejs", "java", "opentelemetry_java",
            "opentelemetry_dotnet"}

NodejsKeys == {"nodejs"}
OtelNodejsKeys == {"opentelemetry/nodejs"}
JavaKeys == {"java"}
OtelJavaKeys ==
    {"opentelemetry/java", "opentelemetry/java/opentelemetry-java-instrumentation",
     "opentelemetry/java/elastic"}
OtelDotnetKeys ==
    {"opentelemetry/dotnet", "opentelemetry/dotnet/opentelemetry-dotnet-instrumentation",
     "opentelemetry/dotnet/elastic"}
CatalogKeys == NodejsKeys \cup OtelNodejsKeys \cup JavaKeys \cup OtelJavaKeys \cup OtelDotnetKeys

BundleOf(name) ==
    CASE name \in NodejsKeys -> "nodejs"
      [] name \in OtelNodejsKeys -> "opentelemetry_nodejs"
      [] name \in JavaKeys -> "java"
      [] name \in OtelJavaKeys -> "opentelemetry_java"
      [] name \in OtelDotnetKeys -> "opentelemetry_dotnet"

(* C1: the mapping has exactly nine keys; a lookup of each key yields the  *)
(* bundle the specification lists for it (nodejs, opentelemetry/nodejs and *)
(* java their own, the three opentelemetry/java keys opentelemetry_java,   *)
(* the three opentelemetry/dotnet keys opentelemetry_dotnet); and each of  *)
(* the five bundles is the image of at least one key.                      *)
C1_MappingTable ==
    /\ Cardinality(DOMAIN AGENT_NAME_DASHBOARD_FILE_MAPPING) = 9
    /\ DOMAIN AGENT_NAME_DASHBOARD_FILE_MAPPING = CatalogKeys
    /\ \A b \in Bundles :
        \E k \in DOMAIN AGENT_NAME_DASHBOARD_FILE_MAPPING :
            AGENT_NAME_DASHBOARD_FILE_MAPPING[k] = b
    /\ (viaLookup /\ agentName \in CatalogKeys) => filename = Def(BundleOf(agentName))

(* A key shared by several agents was looked up and its bundle loaded. *)
C1_Witness ==
    /\ viaLookup
    /\ agentName = "opentelemetry/java/elastic"
    /\ filename = Def("opentelemetry_java")
    /\ settled = "fulfilled"
    /\ dashboard = Def(JsonModule("./opentelemetry_java.json"))

(* C2: a lookup of an agent name that is none of the nine keys yields no   *)
(* filename (no string); and every loadDashboardFile call whose argument   *)
(* is none of the five bundle names is fulfilled with undefined and        *)
(* imports no file.                                                        *)
C2_UnrecognizedResolveToNothing ==
    [][/\ (viaLookup' /\ agentName' \notin CatalogKeys /\ settled' = "none")
            => ~IsString(filename')
       /\ (settled' # "none" /\ filename' \notin {Def(b) : b \in Bundles})
            => /\ settled' = "fulfilled"
               /\ dashboard' = Undefined
               /\ imported' = imported]_vars

(* The agent name 'node' was looked up and the result was loaded. *)
C2_Witness ==
    /\ viaLookup
    /\ agentName = "node"
    /\ filename = Undefined
    /\ settled = "fulfilled"
    /\ dashboard = Undefined
    /\ imported = {}

(* The filenames loadDashboardFile is tried with: every lookup result,     *)
(* the filenames given directly, and the five bundle names.                *)
FilenamesTried ==
    OtherFilenames \cup {LookupDashboardFile(n) : n \in AgentNames}
        \cup {Def(b) : b \in Bundles}

(* C24: every value of the mapping is handled by a case of                 *)
(* loadDashboardFile, which imports the JSON file of that name; every      *)
(* filename a case handles is the value of at least one key; and a load    *)
(* of the lookup result of a recognized agent name is fulfilled with the   *)
(* JSON file named after the mapping's value, never with undefined.        *)
C24_CatalogClosed ==
    /\ \A k \in DOMAIN AGENT_NAME_DASHBOARD_FILE_MAPPING :
        LET file == "./" \o AGENT_NAME_DASHBOARD_FILE_MAPPING[k] \o ".json"
            r == loadDashboardFile(Def(AGENT_NAME_DASHBOARD_FILE_MAPPING[k]))
        IN  /\ r.import = Def(file)
            /\ r.value = Def(JsonModule(file))
    /\ \A f \in FilenamesTried :
        IsDef(loadDashboardFile(f).import) =>
            \E k \in DOMAIN AGENT_NAME_DASHBOARD_FILE_MAPPING :
                f = Def(AGENT_NAME_DASHBOARD_FILE_MAPPING[k])
    /\ (/\ viaLookup
        /\ agentName \in DOMAIN AGENT_NAME_DASHBOARD_FILE_MAPPING
        /\ settled = "fulfilled")
       => LET file == "./" \o AGENT_NAME_DASHBOARD_FILE_MAPPING[agentName] \o ".json"
          IN  /\ dashboard = Def(JsonModule(file))
              /\ file \in imported

(* The elastic .NET distribution was looked up and its dashboard loaded. *)
C24_Witness ==
    /\ viaLookup
    /\ agentName = "opentelemetry/dotnet/elastic"
    /\ settled = "fulfilled"
    /\ dashboard = Def(JsonModule("./opentelemetry_dotnet.json"))
    /\ "./opentelemetry_dotnet.json" \in imported

(***************************************************************************)
(*             Properties of the LogRateAnalysisResults component          *)
(***************************************************************************)
(* The calls of the given type among cs, in order. *)
CallsOfType(cs, type) == SelectSeq(cs, LAMBDA c : c.type = type)

(* C3: cancelHandler first aborts the controller of the abortCtrl ref and  *)
(* then dispatches cancelStream, and leaves overrides, skippedFields,      *)
(* groupResults, toggleIdSelected and shouldStart as they are; and every   *)
(* startStream the component dispatches passes that same ref as abortCtrl. *)
C3_CancelAbortsThenCancels ==
    [][/\ (lastAction' = "cancelHandler") =>
            /\ Len(calls') = 2
            /\ calls'[1] = [type |-> "abort", payload |-> abortCtrl]
            /\ calls'[2].type = "cancelStream"
            /\ UNCHANGED <<overrides, skippedFields, groupResults, toggleIdSelected,
                           shouldStart>>
       /\ \A i \in 1..Len(calls') :
            calls'[i].type = "startStream"
                => Val(calls'[i].payload).abortCtrl = abortCtrl]_vars

(* A running analysis was cancelled while overrides were held. *)
C3_Witness ==
    /\ lastAction = "cancelHandler"
    /\ pending
    /\ deps.isRunning
    /\ ~store.isRunning
    /\ IsDef(overrides)

(* The result set has work left. *)
WorkLeft(data) ==
    \/ (IsDef(data.remainingKeywordFieldCandidates)
            /\ data.remainingKeywordFieldCandidates # Def(<<>>))
    \/ (IsDef(data.remainingTextFieldCandidates)
            /\ data.remainingTextFieldCandidates # Def(<<>>))
    \/ data.groupsMissing

(* C4: when the component sees isRunning having become false while the    *)
(* result set has loaded < 1 and work left, the step that follows sets     *)
(* overrides to exactly the run's loaded fraction, its remaining keyword   *)
(* and text field candidates and the significant items found so far.       *)
C4_ResumableOverrides ==
    [][(/\ mounted
        /\ deps.isRunning
        /\ ~store.isRunning
        /\ store.data.loaded < LoadedFull
        /\ WorkLeft(store.data))
       => overrides' =
            Def([loaded |-> store.data.loaded,
                 remainingKeywordFieldCandidates |-> store.data.remainingKeywordFieldCandidates,
                 remainingTextFieldCandidates |-> store.data.remainingTextFieldCandidates,
                 significantItems |-> store.data.significantItems])]_vars

(* A run stopped half way with a keyword candidate left and an item found, *)
(* and the overrides hold them.                                            *)
C4_Witness ==
    /\ lastAction = "render"
    /\ ~store.isRunning
    /\ store.data.loaded = 1
    /\ store.data.significantItems = Items(1)
    /\ overrides = Def([loaded |-> 1,
                        remainingKeywordFieldCandidates |-> Def(<<"k2">>),
                        remainingTextFieldCandidates |-> Def(<<>>),
                        significantItems |-> Items(1)])

(* The overrides a stopped run leaves behind: the four captured fields. *)
CapturedFields ==
    {"loaded", "remainingKeywordFieldCandidates", "remainingTextFieldCandidates",
     "significantItems"}

(* Continuing dispatches no resetResults, leaves overrides as they are and *)
(* keeps the results received.                                             *)
ContinueKeeps ==
    (lastAction' = "continue") =>
        /\ CallsOfType(calls', "resetResults") = <<>>
        /\ overrides' = overrides
        /\ store'.data = store.data

(* C5: continuing an analysis dispatches no resetResults, does not modify  *)
(* overrides and keeps the results received, and the startStream that      *)
(* follows carries in body.overrides exactly the overrides the component   *)
(* held when the button was clicked.                                       *)
C5_ContinueCarriesHeldOverrides ==
    [][/\ ContinueKeeps
       /\ (lastAction = "continue" /\ lastAction' = "render") =>
            \A i \in 1..Len(calls') :
                calls'[i].type = "startStream"
                    => Val(calls'[i].payload).body.overrides = overrides]_vars

(* The button was clicked on the overrides of a run that stopped half way. *)
C5_Witness ==
    /\ lastAction = "continue"
    /\ pending
    /\ shouldStart
    /\ IsDef(overrides)
    /\ DOMAIN Val(overrides) = CapturedFields
    /\ Val(overrides).loaded = 1
    /\ store.data.loaded = 1

(* C5 as claimed: the startStream that follows a continue carries the      *)
(* loaded fraction, remaining candidates and significant items captured    *)
(* when the previous run stopped.                                          *)
C5_ContinueCarriesCapturedRun ==
    [][/\ ContinueKeeps
       /\ (lastAction = "continue" /\ lastAction' = "render") =>
            \A i \in 1..Len(calls') :
                calls'[i].type = "startStream"
                    => LET carried == Val(calls'[i].payload).body.overrides
                       IN  /\ IsDef(carried)
                           /\ DOMAIN Val(carried) = CapturedFields]_vars

(* C6: the error callout is rendered exactly when the stream errors        *)
(* followed by the result set's errors are not empty; it shows each of     *)
(* them, in that order, and reports their number.                          *)
C6_ErrorCallOut ==
    LET combined == store.streamErrors \o store.data.errors
    IN  /\ IsDef(ErrorCallOut) <=> combined # <<>>
        /\ IsDef(ErrorCallOut) =>
            /\ Val(ErrorCallOut).errorCount = Len(combined)
            /\ Val(ErrorCallOut).text.items = combined

(* Both sources hold an error and the callout lists the two. *)
C6_Witness ==
    /\ mounted
    /\ store.streamErrors # <<>>
    /\ store.data.errors # <<>>
    /\ IsDef(ErrorCallOut)
    /\ Val(ErrorCallOut).errorCount = 2

(* The candidates that are not among the skipped fields, in order; all of  *)
(* them while no selection was made.                                       *)
RECURSIVE Without(_, _)
Without(candidates, skipped) ==
    IF candidates = <<>> THEN <<>>
    ELSE IF IsDef(skipped) /\ \E i \in 1..Len(Val(skipped)) : Val(skipped)[i] = Head(candidates)
         THEN Without(Tail(candidates), skipped)
         ELSE <<Head(candidates)>> \o Without(Tail(candidates), skipped)

(* C10: a refresh dispatches resetResults, clearAllRowState,               *)
(* setCurrentAnalysisType and setCurrentAnalysisWindowParameters, in that  *)
(* order and with the chart's current values; it replaces overrides by an  *)
(* object of only the remaining keyword and text field candidates, each    *)
(* the full candidate list without the skipped fields; and it switches     *)
(* grouping off.                                                           *)
C10_Refresh ==
    [][(lastAction' = "refresh") =>
        /\ calls' = <<[type |-> "resetResults", payload |-> <<>>],
                      [type |-> "clearAllRowState", payload |-> <<>>],
                      [type |-> "setCurrentAnalysisType", payload |-> store.analysisType],
                      [type |-> "setCurrentAnalysisWindowParameters",
                       payload |-> store.chartWindowParameters]>>
        /\ IsDef(overrides')
        /\ DOMAIN Val(overrides') =
                {"remainingKeywordFieldCandidates", "remainingTextFieldCandidates"}
        /\ Val(overrides').remainingKeywordFieldCandidates =
                Def(Without(store.fieldCandidates.keywordFieldCandidates, skippedFields))
        /\ Val(overrides').remainingTextFieldCandidates =
                Def(Without(store.fieldCandidates.textFieldCandidates, skippedFields))
        /\ groupResults' = FALSE
        /\ toggleIdSelected' = resultsGroupedOffId]_vars

(* A dip was refreshed with grouping on and two fields skipped. *)
C10_Witness ==
    /\ lastAction = "refresh"
    /\ store.analysisType = "dip"
    /\ skippedFields = Def(<<"k1", "t1">>)
    /\ overrides = Def([remainingKeywordFieldCandidates |-> Def(<<"k2">>),
                        remainingTextFieldCandidates |-> Def(<<>>)])
    /\ calls[4].payload = Def(WindowParametersB)
    /\ ~groupResults

(* The elements of a sequence. *)
Elements(seq) == {seq[i] : i \in 1..Len(seq)}

(* C11: applying a field filter with the skipped fields S dispatches       *)
(* resetResults (and no clearAllRowState), sets skippedFields to S and     *)
(* overrides to loaded 0, the keyword and the text candidates not in S     *)
(* and regroupOnly false, requests a start and leaves the grouping toggle  *)
(* as it is; the startStream that follows carries no field of S among its  *)
(* remaining candidates.                                                   *)
C11_FieldFilterChange ==
    [][/\ (lastAction' = "onFieldsFilterChange") =>
            /\ IsDef(skippedFields')
            /\ Head(calls') = [type |-> "resetResults", payload |-> <<>>]
            /\ CallsOfType(calls', "clearAllRowState") = <<>>
            /\ CallsOfType(calls', "startStream") = <<>>
            /\ overrides' =
                Def([loaded |-> 0,
                     remainingKeywordFieldCandidates |->
                        Def(Without(store.fieldCandidates.keywordFieldCandidates,
                                    skippedFields')),
                     remainingTextFieldCandidates |->
                        Def(Without(store.fieldCandidates.textFieldCandidates,
                                    skippedFields')),
                     regroupOnly |-> FALSE])
            /\ shouldStart'
            /\ UNCHANGED <<groupResults, toggleIdSelected>>
       /\ (lastAction = "onFieldsFilterChange" /\ lastAction' = "render") =>
            \A i \in 1..Len(calls') :
                calls'[i].type = "startStream" =>
                    LET carried == Val(Val(calls'[i].payload).body.overrides)
                    IN  Elements(Val(skippedFields))
                            \cap (Elements(Val(carried.remainingKeywordFieldCandidates))
                                  \cup Elements(Val(carried.remainingTextFieldCandidates)))
                        = {}]_vars

(* A keyword and a text field were skipped while grouping was on. *)
C11_Witness ==
    /\ lastAction = "onFieldsFilterChange"
    /\ skippedFields = Def(<<"k1", "t1">>)
    /\ overrides = Def([loaded |-> 0,
                        remainingKeywordFieldCandidates |-> Def(<<"k2">>),
                        remainingTextFieldCandidates |-> Def(<<>>),
                        regroupOnly |-> FALSE])
    /\ groupResults
    /\ toggleIdSelected = resultsGroupedOnId
    /\ pending

(* C12: skippedFields changes only by copying the store's non-empty        *)
(* fieldFilterSkippedItems while it is still null, by the user's           *)
(* selection, or with the instance; once it is not null, a commit leaves   *)
(* it as it is whatever the store's list has become.                       *)
C12_SkippedFieldsFirstLoadOnly ==
    [][/\ (skippedFields' # skippedFields) =>
            \/ lastAction' \in {"onFieldsFilterChange", "unmount"}
            \/ /\ lastAction' \in {"mount", "render"}
               /\ ~IsDef(skippedFields)
               /\ store.fieldCandidates.fieldFilterSkippedItems # <<>>
               /\ skippedFields' = Def(store.fieldCandidates.fieldFilterSkippedItems)
       /\ (IsDef(skippedFields) /\ lastAction' \in {"mount", "render"})
            => skippedFields' = skippedFields]_vars

(* The user's selection to skip nothing is committed, the store's list    *)
(* has changed since, and the commit that runs the effect again is due.    *)
C12_Witness ==
    /\ mounted
    /\ pending
    /\ skippedFields = Def(<<>>)
    /\ deps.skippedFields = Def(<<>>)
    /\ deps.fieldFilterSkippedItems = <<>>
    /\ store.fieldCandidates.fieldFilterSkippedItems = <<"k2">>

(* The steps that are a call of startHandler. *)
StartHandlers == {"refresh", "continue", "onFieldsFilterChange"}

(* C13: startHandler dispatches no startStream itself and sets             *)
(* shouldStart; the commit that follows dispatches at most one             *)
(* startStream, whose body.overrides is the overrides value the handler    *)
(* left; and every commit that dispatches a startStream for a request      *)
(* sets shouldStart back to false.                                         *)
C13_StartIsDeferredAndFresh ==
    [][/\ (lastAction' \in StartHandlers) =>
            /\ CallsOfType(calls', "startStream") = <<>>
            /\ shouldStart'
       /\ (lastAction \in StartHandlers /\ lastAction' = "render") =>
            LET starts == CallsOfType(calls', "startStream")
            IN  /\ Len(starts) <= 1
                /\ \A i \in 1..Len(starts) :
                        Val(starts[i].payload).body.overrides = overrides
       /\ (lastAction' = "render" /\ CallsOfType(calls', "startStream") # <<>>) =>
            /\ shouldStart
            /\ ~shouldStart']_vars

(* The commit after a refresh started the stream with the overrides the    *)
(* refresh wrote.                                                          *)
C13_Witness ==
    /\ lastAction = "render"
    /\ ~shouldStart
    /\ store.isRunning
    /\ overrides = Def([remainingKeywordFieldCandidates |-> Def(KeywordFields),
                        remainingTextFieldCandidates |-> Def(TextFields)])
    /\ Len(calls) = 1
    /\ calls[1].type = "startStream"
    /\ Val(calls[1].payload).body.overrides = overrides

(* C14 as claimed: every start request is eventually served.  Whenever    *)
(* shouldStart is true in a mounted component and the chart's window       *)
(* parameters, earliest and latest are there (at the request or later),    *)
(* a startStream is eventually dispatched and shouldStart returns to       *)
(* false, unless the component is unmounted first.                         *)
C14_EveryStartRequestServed ==
    (mounted /\ shouldStart /\ IsDef(startParams)) ~> (~mounted \/ ~shouldStart)

(* What a mount dispatches: its calls but the metric report. *)
Dispatched(cs) == SelectSeq(cs, LAMBDA c : c.type # "reportPerformanceMetricEvent")

(* The four dispatches of a mount, all with the same start parameters,     *)
(* which hold the store's time range and no overrides.                     *)
MountDispatches(cs) ==
    /\ Len(cs) = 4
    /\ cs[1].type = "fetchFieldCandidates"
    /\ cs[2] = [type |-> "setCurrentAnalysisType", payload |-> store.analysisType]
    /\ cs[3] = [type |-> "setCurrentAnalysisWindowParameters",
                payload |-> store.chartWindowParameters]
    /\ cs[4].type = "startStream"
    /\ IsDef(cs[4].payload)
    /\ cs[1].payload = cs[4].payload
    /\ Val(cs[4].payload).body.start = Val(store.earliest)
    /\ Val(cs[4].payload).body.end = Val(store.latest)
    /\ Val(cs[4].payload).body.overrides = Undefined

(* C15 as claimed: a mount dispatches fetchFieldCandidates,                *)
(* setCurrentAnalysisType, setCurrentAnalysisWindowParameters and          *)
(* startStream, once and in this order, with the mount-time start          *)
(* parameters, exactly when chartWindowParameters, earliest and latest are *)
(* all present, and nothing otherwise; and no startStream is ever          *)
(* dispatched with undefined parameters.                                   *)
C15_MountDispatches ==
    [][/\ (lastAction' = "mount") =>
            IF /\ IsDef(store.chartWindowParameters)
               /\ IsDef(store.earliest)
               /\ IsDef(store.latest)
            THEN MountDispatches(Dispatched(calls'))
            ELSE Dispatched(calls') = <<>>
       /\ \A i \in 1..Len(calls') :
            calls'[i].type = "startStream" => IsDef(calls'[i].payload)]_vars

(* The metric reports among the calls. *)
Reports(cs) == CallsOfType(cs, "reportPerformanceMetricEvent")

(* C16: when the component sees isRunning having become false and the      *)
(* result set is not resumable (not: loaded < 1 with work left), the step  *)
(* that follows makes overrides undefined if loaded > 0 and leaves it as   *)
(* it is if loaded is 0; so overrides is undefined after a run that ends   *)
(* with loaded = 1; and a commit made while isRunning is true leaves       *)
(* overrides as it is.                                                     *)
C16_OverridesReset ==
    [][/\ (/\ mounted
           /\ deps.isRunning
           /\ ~store.isRunning
           /\ ~(store.data.loaded < LoadedFull /\ WorkLeft(store.data)))
          => overrides' = IF store.data.loaded > 0 THEN Undefined ELSE overrides
       /\ (mounted /\ store.isRunning /\ lastAction' = "render")
          => overrides' = overrides]_vars

(* A refreshed run ended with everything loaded and the overrides the      *)
(* refresh wrote are gone.                                                 *)
C16_Witness ==
    /\ lastAction = "render"
    /\ ~store.isRunning
    /\ ~deps.isRunning
    /\ store.data.loaded = LoadedFull
    /\ store.data.significantItems # <<>>
    /\ overrides = Undefined
    /\ Reports(calls) # <<>>

(* C17: the metric is reported only while the start time is set, once,     *)
(* and the report unsets it; once unset, the start time stays unset and    *)
(* nothing is reported for as long as the instance lives.                  *)
C17_MetricAtMostOnce ==
    [][/\ (Reports(calls') # <<>>) =>
            /\ Reports(calls') =
                    <<[type |-> "reportPerformanceMetricEvent",
                       payload |-> "aiopsLogRateAnalysisCompleted"]>>
            /\ IsDef(analysisStartTime)
            /\ ~IsDef(analysisStartTime')
       /\ (~IsDef(analysisStartTime) /\ lastAction' # "unmount") =>
            /\ ~IsDef(analysisStartTime')
            /\ Reports(calls') = <<>>]_vars

(* After the report, a continued run has ended with everything loaded and  *)
(* the commit that saw it reported nothing.                                *)
C17_Witness ==
    /\ mounted
    /\ lastAction = "render"
    /\ ~IsDef(analysisStartTime)
    /\ ~store.isRunning
    /\ ~deps.isRunning
    /\ store.data.loaded = LoadedFull
    /\ overrides = Undefined
    /\ calls = <<>>

(* C18 as claimed: the metric is reported only by a commit that sees       *)
(* isRunning having gone from true to false with loaded = 1: not by a      *)
(* mount, and not for a run that stopped with loaded below 1.              *)
C18_MetricOnlyOnCompletion ==
    [][(Reports(calls') # <<>>) =>
            /\ lastAction' = "render"
            /\ deps.isRunning
            /\ ~store.isRunning
            /\ store.data.loaded = LoadedFull]_vars

(* C19 as claimed: the grouping switch is enabled whenever groups were      *)
(* found, or grouping is on, or at least one field is selected to be       *)
(* skipped; it is disabled only when none of the three holds.              *)
C19_GroupSwitchDisabledOnly ==
    mounted =>
        (disabledGroupResultsSwitch =>
            /\ ~foundGroups
            /\ ~groupResults
            /\ ~(IsDef(skippedFields) /\ Val(skippedFields) # <<>>))

(* C20: every onGroupResultsToggle, to on or to off, dispatches            *)
(* clearAllRowState and nothing else; a restart with resetGroupButton =    *)
(* true (refresh, continue) dispatches clearAllRowState once and turns     *)
(* grouping off; and the grouping mode of a mounted component never        *)
(* changes in a step that does not dispatch clearAllRowState.              *)
C20_GroupingChangeClearsRows ==
    [][/\ (lastAction' = "onGroupResultsToggle") =>
            /\ calls' = <<Call("clearAllRowState", NoPayload)>>
            /\ groupResults' = (toggleIdSelected' = resultsGroupedOnId)
       /\ (lastAction' \in {"refresh", "continue"}) =>
            /\ Len(CallsOfType(calls', "clearAllRowState")) = 1
            /\ ~groupResults'
            /\ toggleIdSelected' = resultsGroupedOffId
       /\ (mounted /\ mounted' /\ groupResults' # groupResults) =>
            CallsOfType(calls', "clearAllRowState") # <<>>]_vars

(* The switch has just been turned on, with groups found. *)
C20_Witness ==
    /\ lastAction = "onGroupResultsToggle"
    /\ groupResults
    /\ toggleIdSelected = resultsGroupedOnId
    /\ foundGroups
    /\ calls = <<Call("clearAllRowState", NoPayload)>>

(* C21: in every state groupResults is true exactly when toggleIdSelected  *)
(* is the id of 'grouping on', and a component that is not mounted holds   *)
(* the initial pair (off, false).                                          *)
C21_GroupingAgreesWithToggle ==
    /\ groupResults <=> (toggleIdSelected = resultsGroupedOnId)
    /\ toggleIdSelected \in {resultsGroupedOffId, resultsGroupedOnId}
    /\ ~mounted => (~groupResults /\ toggleIdSelected = resultsGroupedOffId)

(* The switch has just been turned off.  No groups are found, so it was    *)
(* enabled only because grouping was on: a field filter change had reset   *)
(* the results and left the grouping as it was.                            *)
C21_Witness ==
    /\ lastAction = "onGroupResultsToggle"
    /\ ~groupResults
    /\ toggleIdSelected = resultsGroupedOffId
    /\ ~foundGroups
    /\ IsDef(skippedFields)

(* The number of the three result views a render shows. *)
ResultViews ==
    (IF GroupsTableRendered THEN 1 ELSE 0)
    + (IF ItemsTableRendered THEN 1 ELSE 0)
    + (IF EmptyPromptRendered THEN 1 ELSE 0)

(* C22: a mounted component renders at most one of the groups table, the   *)
(* items table and the 'no results' prompt: the groups table exactly when  *)
(* there is a significant item and grouping is on, the items table exactly *)
(* when there is a significant item and grouping is off, the prompt        *)
(* exactly when there is no significant item and the analysis is not       *)
(* running; while it runs without a significant item, none of the three.   *)
C22_OneResultView ==
    mounted =>
        /\ ResultViews <= 1
        /\ GroupsTableRendered <=> (store.data.significantItems # <<>> /\ groupResults)
        /\ ItemsTableRendered <=> (store.data.significantItems # <<>> /\ ~groupResults)
        /\ EmptyPromptRendered <=> (store.data.significantItems = <<>> /\ ~store.isRunning)
        /\ (store.isRunning /\ store.data.significantItems = <<>>) => ResultViews = 0

(* A run is under way and has found nothing yet: no view is rendered. *)
C22_Witness ==
    /\ mounted
    /\ ~pending
    /\ store.isRunning
    /\ store.data.loaded > 0
    /\ store.data.significantItems = <<>>
    /\ ResultViews = 0

(* C23: shouldRerunAnalysis is true exactly when the window parameters     *)
(* recorded for the current analysis are defined and differ (deep          *)
(* comparison) from the chart's; right after a step that is a call of      *)
(* startHandler the two are equal and the indication is false; and the     *)
(* indication turns from false to true only in a step that changes the     *)
(* chart's window parameters.                                              *)
C23_RerunIndication ==
    [][/\ shouldRerunAnalysis' <=>
            /\ IsDef(store'.currentAnalysisWindowParameters)
            /\ store'.currentAnalysisWindowParameters # store'.chartWindowParameters
       /\ (lastAction' \in StartHandlers) =>
            /\ store'.currentAnalysisWindowParameters = store'.chartWindowParameters
            /\ ~shouldRerunAnalysis'
       /\ (~shouldRerunAnalysis /\ shouldRerunAnalysis') =>
            store'.chartWindowParameters # store.chartWindowParameters]_vars

(* The chart's selection had changed and a refresh has recorded the new    *)
(* window parameters.                                                      *)
C23_Witness ==
    /\ lastAction = "refresh"
    /\ store.chartWindowParameters = Def(WindowParametersB)
    /\ store.currentAnalysisWindowParameters = Def(WindowParametersB)
    /\ ~shouldRerunAnalysis

(***************************************************************************)
(*                   Properties of the create-rule flyout                  *)
(***************************************************************************)
(* The flyout shows its form with a rule type selected and no modal. *)
FormShown == flyout = "open" /\ modal = "none" /\ IsDef(ruleType)

(* C7: cancelling a flyout in which only the rule type was selected shows  *)
(* no confirmRuleCloseModal; cancelling after a rule name was entered      *)
(* shows it; and Cancel in that modal dismisses the modal and leaves the   *)
(* flyout open with its form, and the rule uncreated.                      *)
C7_DiscardConfirmation ==
    [][/\ (FormShown /\ ruleName = "" /\ actions = <<>>
                /\ lastClick' = "cancelSaveRuleButton")
            => modal' # "confirmRuleCloseModal"
       /\ (FormShown /\ ruleName # "" /\ lastClick' = "cancelSaveRuleButton")
            => modal' = "confirmRuleCloseModal"
       /\ (modal = "confirmRuleCloseModal"
                /\ lastClick' = "confirmRuleCloseModal > confirmModalCancelButton")
            => /\ modal' = "none"
               /\ flyout' = "open"
               /\ UNCHANGED <<ruleType, ruleName, actions, rules>>]_vars

(* The discard confirmation of a named rule was cancelled. *)
C7_Witness ==
    /\ lastClick = "confirmRuleCloseModal > confirmModalCancelButton"
    /\ flyout = "open"
    /\ modal = "none"
    /\ ruleType = Def(".es-query")
    /\ ruleName = "alertName"
    /\ actions = <<>>
    /\ rules = <<>>

(* C8: the save button of a rule without actions shows the                 *)
(* confirmRuleSaveModal and creates nothing; no rule without actions is    *)
(* created but from that modal; Cancel dismisses it, creates no rule and   *)
(* leaves the save button usable; Confirm dismisses it and creates exactly *)
(* the rule of the entered name, with interval 1 min, and the toast        *)
(* 'Created rule "<name>"'.                                                *)
C8_SaveConfirmation ==
    [][/\ (FormShown /\ actions = <<>> /\ lastClick' = "saveRuleButton")
            => modal' = "confirmRuleSaveModal" /\ rules' = rules /\ toast' = toast
       /\ (Len(rules') > Len(rules) /\ actions = <<>>)
            => modal = "confirmRuleSaveModal"
       /\ (modal = "confirmRuleSaveModal"
                /\ lastClick' = "confirmRuleSaveModal > confirmModalCancelButton")
            => /\ modal' = "none"
               /\ rules' = rules
               /\ flyout' = "open"
               /\ SaveRuleButtonUsable'
       /\ (modal = "confirmRuleSaveModal"
                /\ lastClick' = "confirmRuleSaveModal > confirmModalConfirmButton")
            => /\ modal' = "none"
               /\ rules' = rules \o <<[name |-> ruleName \o "Always Firing",
                                       tags |-> "",
                                       interval |-> "1 min"]>>
               /\ toast' = Def("Created rule \"" \o ruleName \o "\"")]_vars

(* The save of a rule without actions was confirmed and the rule created. *)
C8_Witness ==
    /\ lastClick = "confirmRuleSaveModal > confirmModalConfirmButton"
    /\ modal = "none"
    /\ rules = <<[name |-> "alertNameAlways Firing", tags |-> "", interval |-> "1 min"]>>
    /\ toast = Def("Created rule \"alertName\"")

(* C9: with two actions of the same type in the form, deleting the one at  *)
(* position 0 leaves exactly the other action, with its own message body;  *)
(* the body of the deleted one is nowhere in the form unless the other     *)
(* action has the same.                                                    *)
C9_DeleteFirstAction ==
    [][(/\ FormShown
        /\ Len(actions) = 2
        /\ actions[1].type = actions[2].type
        /\ lastClick' = "alertActionAccordion-0")
       => /\ actions' = <<actions[2]>>
          /\ actions[1].body # actions[2].body
                => \A j \in 1..Len(actions') : actions'[j].body # actions[1].body]_vars

(* The first of the accordions was deleted and a webhook action with the   *)
(* default message is what is left.                                        *)
C9_Witness ==
    /\ lastClick = "alertActionAccordion-0"
    /\ flyout = "open"
    /\ actions = <<[type |-> ".webhook", body |-> DefaultMessage]>>
    /\ ruleName = "ruleName"

====
